---- MODULE Spec2Model ----
(***************************************************************************)
(* Session/token lifecycle of the consultant-management client:            *)
(* AuthService (auth.service.ts), the authenticated request gate of        *)
(* ConsultantService (consultant.service.ts), their callers, and the list  *)
(* handling of AppComponent (app.ts).                                      *)
(*                                                                         *)
(* JavaScript runs one task at a time: an async function runs up to its    *)
(* first pending await, and the continuation runs when the HTTP response   *)
(* arrives.  Every action below is one such run-to-completion step (the    *)
(* task together with the promise continuations it resolves).              *)
(***************************************************************************)
EXTENDS Integers, Sequences, FiniteSets, TLC

\* ---------------------------------------------------------------- bounds
MaxCallers == 1      \* concurrent callers (UI tasks) of the services
MaxTicks == 2        \* clock steps a behaviour may take
MaxLoads == 2        \* AppComponent calls (login, loadConsultants) in flight at once

\* ------------------------------------------------------ program constants
Margin == 60000      \* getValidToken: current.expiresAt - 60_000 > Date.now()
MsPerSecond == 1000  \* Number(expires_in) * 1000

TickMs == Margin \div 2        \* granularity of the modelled clock
StartNow == Margin             \* Date.now() when the service is constructed
MaxNow == StartNow + MaxTicks * TickMs

Callers == 1..MaxCallers

\* ------------------------------------------------------------- JS values
Undefined == "<undefined>"     \* a missing string property
UndefinedEmail == <<Undefined>> \* a missing e-mail property
NaN == 0 - 1                   \* a missing/NaN number (timestamps are >= 0)
IsNum(v) == v >= 0
Truthy(s) == s # Undefined /\ s # ""

Null == [null |-> TRUE]        \* AuthSession | null

\* e-mail addresses are character sequences so that trim() can be computed
Space == " "
ServerEmails == {<<"a">>, <<"b">>}
Identifiers == ServerEmails \cup {<<Space, "a", Space>>}
\* expires_in / expiresIn: a decimal string, modelled as its digits
ExpiresInStrings == {<<3, 0>>, <<1, 2, 0>>}

RECURSIVE TrimStart(_)
TrimStart(s) == IF s # <<>> /\ Head(s) = Space THEN TrimStart(Tail(s)) ELSE s

RECURSIVE TrimEnd(_)
TrimEnd(s) ==
  IF s # <<>> /\ s[Len(s)] = Space THEN TrimEnd(SubSeq(s, 1, Len(s) - 1)) ELSE s

\* String.prototype.trim
Trim(s) == TrimEnd(TrimStart(s))

\* Number(decimalString)
RECURSIVE Number(_)
Number(digits) ==
  IF digits = <<>> THEN 0
  ELSE 10 * Number(SubSeq(digits, 1, Len(digits) - 1)) + digits[Len(digits)]

\* ---------------------------------------------------------------- state
VARIABLES
  phase,      \* "boot" before the AuthService is constructed, then "running"
  apiKey,     \* environment.firebase.apiKey is a non-empty string
  now,        \* Date.now()
  session,    \* AuthService.session signal: an AuthSession or Null
  storage,    \* window.localStorage item under storageKey
  startup,    \* the ensureSessionValidity() call made by the constructor
  calls,      \* per caller: the service call it is running
  received,   \* the last token-service response HttpClient delivered
  app         \* AppComponent: its signals, and whether its effect is due

vars == <<phase, apiKey, now, session, storage, startup, calls, received, app>>

\* the static server only delivers the browser bundle: window is defined
HasWindow == TRUE

\* ------------------------------------------------------- JSON / storage
NoItem == [item |-> FALSE]
Item(text) == [item |-> TRUE, text |-> text]

\* one "key": value member of a JSON object text
StrMember(k, v) == [key |-> k, isNum |-> FALSE, str |-> v, chars |-> <<>>, num |-> 0]
CharsMember(k, v) == [key |-> k, isNum |-> FALSE, str |-> "", chars |-> v, num |-> 0]
NumMember(k, v) == [key |-> k, isNum |-> TRUE, str |-> "", chars |-> <<>>, num |-> v]

\* JSON.stringify(session): undefined properties are omitted
\* mutant: the refreshToken member is left out of the text
JSONstringifyOmitsRefreshToken(s) ==
  [syntaxOk |-> TRUE,
   members |->
     (IF s.email = UndefinedEmail THEN <<>> ELSE <<CharsMember("email", s.email)>>)
     \o (IF s.idToken = Undefined THEN <<>> ELSE <<StrMember("idToken", s.idToken)>>)
     \o (IF ~IsNum(s.expiresAt) THEN <<>> ELSE <<NumMember("expiresAt", s.expiresAt)>>)]

JSONstringify(s) ==
  [syntaxOk |-> TRUE,
   members |->
     (IF s.email = UndefinedEmail THEN <<>> ELSE <<CharsMember("email", s.email)>>)
     \o (IF s.idToken = Undefined THEN <<>> ELSE <<StrMember("idToken", s.idToken)>>)
     \o (IF s.refreshToken = Undefined THEN <<>> ELSE <<StrMember("refreshToken", s.refreshToken)>>)
     \o (IF ~IsNum(s.expiresAt) THEN <<>> ELSE <<NumMember("expiresAt", s.expiresAt)>>)]

HasMember(text, k) == \E i \in 1..Len(text.members) : text.members[i].key = k
Member(text, k) ==
  text.members[CHOOSE i \in 1..Len(text.members) : text.members[i].key = k]

\* JSON.parse(raw) as AuthSession: no field is checked
JSONparse(text) ==
  [email |-> IF HasMember(text, "email") THEN Member(text, "email").chars ELSE UndefinedEmail,
   idToken |-> IF HasMember(text, "idToken") THEN Member(text, "idToken").str ELSE Undefined,
   refreshToken |-> IF HasMember(text, "refreshToken") THEN Member(text, "refreshToken").str ELSE Undefined,
   expiresAt |-> IF HasMember(text, "expiresAt") THEN Member(text, "expiresAt").num ELSE NaN]

CorruptText == [syntaxOk |-> FALSE, members |-> <<>>]

\* restoreSession()
RestoreSession(st) ==
  IF ~HasWindow THEN Null
  ELSE IF ~st.item THEN Null
  ELSE IF ~st.text.syntaxOk THEN Null      \* JSON.parse throws, caught
  ELSE JSONparse(st.text)

\* mutant: persistSession(null) leaves the stored record in place
PersistSessionNeverRemoves(s) ==
  /\ session' = s
  /\ storage' = IF s = Null THEN storage ELSE Item(JSONstringify(s))

\* persistSession(s)
PersistSession(s) ==
  /\ session' = s
  /\ storage' = IF ~HasWindow THEN storage
                ELSE IF s = Null THEN NoItem
                ELSE Item(JSONstringify(s))

\* ------------------------------------------------------- token exchanges
\* assertApiKey() does not throw
AssertApiKey == apiKey

\* the token pairs the identity service hands out
Grants == {[id |-> "T1", refresh |-> "R1"], [id |-> "T2", refresh |-> "R2"]}

\* responses of the sign-in endpoint (SignInResponse)
SignInResponses ==
  { [email |-> e, idToken |-> g.id, refreshToken |-> g.refresh, expiresIn |-> x] :
      e \in ServerEmails, g \in Grants, x \in ExpiresInStrings }

\* responses of the secure-token endpoint (RefreshResponse)
RefreshResponses ==
  { [id_token |-> g.id, refresh_token |-> g.refresh, expires_in |-> x,
     user_id |-> "uid"] : g \in Grants, x \in ExpiresInStrings }

NoBody == [none |-> TRUE]
NoResponse == [none |-> TRUE]

\* body of the refresh exchange
RefreshBody(current) ==
  [grant_type |-> "refresh_token", refresh_token |-> current.refreshToken]

\* body of the sign-in exchange (the password does not reach the state)
SignInBody(email) == [email |-> Trim(email), returnSecureToken |-> TRUE]

\* mutant: the rotated refresh token is dropped, the one sent is kept
RefreshSessionKeepsRefreshToken(current, response, t) ==
  [email |-> current.email,
   idToken |-> response.id_token,
   refreshToken |-> current.refreshToken,
   expiresAt |-> t + Number(response.expires_in) * MsPerSecond]

\* the AuthSession refreshSession(current) returns for a response read at t
RefreshSession(current, response, t) ==
  [email |-> current.email,
   idToken |-> response.id_token,
   refreshToken |-> response.refresh_token,
   expiresAt |-> t + Number(response.expires_in) * MsPerSecond]

\* mutant: the declared lifetime is added in seconds, not milliseconds
ToSessionLifetimeInSeconds(response, t) ==
  [email |-> response.email,
   idToken |-> response.idToken,
   refreshToken |-> response.refreshToken,
   expiresAt |-> t + Number(response.expiresIn)]

\* toSession(response) evaluated at t
ToSession(response, t) ==
  [email |-> response.email,
   idToken |-> response.idToken,
   refreshToken |-> response.refreshToken,
   expiresAt |-> t + Number(response.expiresIn) * MsPerSecond]

\* mutant: the safety margin is forgotten
FreshEnoughNoMargin(current, t) ==
  IsNum(current.expiresAt) /\ current.expiresAt > t

\* getValidToken: current.expiresAt - 60_000 > Date.now()  (NaN compares false)
FreshEnough(current, t) ==
  IsNum(current.expiresAt) /\ current.expiresAt - Margin > t

\* mutant: startup applies the safety margin of getValidToken
ElapsedWithinMargin(current, t) ==
  IsNum(current.expiresAt) /\ current.expiresAt - Margin <= t

\* ensureSessionValidity: current.expiresAt <= Date.now()  (NaN compares false)
Elapsed(current, t) ==
  IsNum(current.expiresAt) /\ current.expiresAt <= t

\* isAuthenticated = computed(() => !!session())
IsAuthenticated == session # Null

\* userEmail = computed(() => session()?.email ?? null)
UserEmail == IF session = Null THEN <<>> ELSE session.email

\* ----------------------------------------------------------------- calls
NoHeader == <<>>
\* `Bearer ${token}`
Bearer(token) == <<"Bearer", token>>

\* buildHeaders after getValidToken returned token: the Authorization header
BuildHeaders(token) == IF Truthy(token) THEN Bearer(token) ELSE NoHeader

\* a caller that is running nothing
IdleCall ==
  [pc |-> "idle",            \* idle | awaitRefresh | awaitLogin | sent
   email |-> <<>>,           \* current.email (refresh) or login's email argument
   body |-> NoBody,          \* body of the token exchange in flight
   exchanges |-> 0,          \* token exchanges the operation has started
   outcome |-> "none",       \* how the operation ended for its caller
   token |-> Undefined,      \* what getValidToken returned
   authorization |-> NoHeader]   \* Authorization header of the request sent

\* mutant: the cached token is never used
GetValidTokenAlwaysRefreshes(s, t) ==
  IF s = Null THEN [kind |-> "throw", error |-> "NotAuthenticated"]
  ELSE IF ~AssertApiKey THEN [kind |-> "throw", error |-> "ApiKeyError"]
  ELSE [kind |-> "await", body |-> RefreshBody(s)]

\* getValidToken() up to its first pending await, on session value s at time t
GetValidToken(s, t) ==
  IF s = Null THEN [kind |-> "throw", error |-> "NotAuthenticated"]
  ELSE IF FreshEnough(s, t) THEN [kind |-> "return", token |-> s.idToken]
  ELSE IF ~AssertApiKey THEN [kind |-> "throw", error |-> "ApiKeyError"]
  ELSE [kind |-> "await", body |-> RefreshBody(s)]

\* withAuth(requestFactory): buildHeaders() calls getValidToken(); the request
\* is sent once the token is there, an error ends the observable unsent
WithAuth(s, t) ==
  LET r == GetValidToken(s, t) IN
  IF r.kind = "return"
  THEN [IdleCall EXCEPT !.pc = "sent", !.token = r.token,
                        !.authorization = BuildHeaders(r.token)]
  ELSE IF r.kind = "throw"
  THEN [IdleCall EXCEPT !.outcome = r.error]
  ELSE [IdleCall EXCEPT !.pc = "awaitRefresh", !.email = s.email,
                        !.body = r.body, !.exchanges = 1]

\* ensureSessionValidity() up to its first await
StartupIdle ==
  [pc |-> "boot",        \* boot | awaitRefresh | rejected | done
   current |-> Null,     \* the rehydrated session ensureSessionValidity read
   body |-> NoBody,      \* body of the refresh exchange in flight
   outcome |-> "none"]   \* none | kept | refreshed | loggedOut

EnsureSessionValidity(s, t) ==
  IF s = Null THEN [StartupIdle EXCEPT !.pc = "done"]
  ELSE IF Elapsed(s, t)
  THEN IF ~AssertApiKey
       THEN [StartupIdle EXCEPT !.pc = "rejected", !.current = s]
       ELSE [StartupIdle EXCEPT !.pc = "awaitRefresh", !.current = s,
                                !.body = RefreshBody(s)]
  ELSE [StartupIdle EXCEPT !.pc = "done", !.current = s, !.outcome = "kept"]

\* --------------------------------------------------------- AppComponent
Loaders == 1..MaxLoads

\* Consultant, as far as the component looks at it
Consultant(i, n) == [id |-> i, nome |-> n]

\* the names in the order localeCompare puts them
Alphabet == <<"Ana", "Bia">>
RankOf(n) == CHOOSE i \in 1..Len(Alphabet) : Alphabet[i] = n
\* a.nome.localeCompare(b.nome)
LocaleCompare(a, b) == RankOf(a.nome) - RankOf(b.nome)

\* consultores.sort((a, b) => a.nome.localeCompare(b.nome))
RECURSIVE SortByNome(_)
InsertByNome(x, sorted) ==
  LET before == SelectSeq(sorted, LAMBDA y : LocaleCompare(y, x) <= 0)
      after == SelectSeq(sorted, LAMBDA y : LocaleCompare(y, x) > 0)
  IN before \o <<x>> \o after
SortByNome(list) ==
  IF list = <<>> THEN <<>>
  ELSE InsertByNome(list[Len(list)], SortByNome(SubSeq(list, 1, Len(list) - 1)))

\* what GET apiUrl may answer
ListResults == {<<>>, <<Consultant("2", "Bia"), Consultant("1", "Ana")>>}

\* the component before ngOnInit: its effect is created and due to run
AppIdle ==
  [stage |-> "init",       \* init | ready (ngOnInit has run)
   effectDue |-> TRUE,     \* the constructor's effect is scheduled
   consultants |-> <<>>,   \* consultants signal
   loading |-> FALSE,      \* loading signal
   feedback |-> "none"]    \* feedback signal: none | success | error

\* showFeedback(type, message)
ShowFeedback(a, type) == [a EXCEPT !.feedback = type]
\* handleError(message, error)
HandleError(a) == ShowFeedback(a, "error")

\* loadConsultants() from loading.set(true) on, after list() left the call in
\* state call: a rejected observable goes through catch and finally at once
LoadStarted(a, call) ==
  IF call.pc = "idle"
  THEN [HandleError(a) EXCEPT !.loading = FALSE]
  ELSE [a EXCEPT !.loading = TRUE]

\* the component is between tasks: ngOnInit done, no effect run pending
Settled == phase = "running" /\ app.stage = "ready" /\ ~app.effectDue

\* ------------------------------------------------------------------ Init
Rec(e, i, r, x) == [email |-> e, idToken |-> i, refreshToken |-> r, expiresAt |-> x]

\* records a previous run (or anything else writing the item) may have left
StoredSessions ==
  { Rec(<<"a">>, "T1", "R1", StartNow - TickMs),        \* elapsed
    Rec(<<"a">>, "T1", "R1", StartNow),                 \* elapsing right now
    Rec(<<"a">>, "T1", "R1", StartNow + TickMs),        \* inside the margin
    Rec(<<"a">>, "T1", "R1", StartNow + 4 * TickMs),    \* valid
    Rec(<<"a">>, Undefined, "R1", StartNow + 4 * TickMs),  \* no idToken
    Rec(<<"a">>, "T1", "R1", NaN) }                     \* no expiresAt

InitStorage ==
  {NoItem, Item(CorruptText)} \cup {Item(JSONstringify(s)) : s \in StoredSessions}

Init ==
  /\ phase = "boot"
  /\ apiKey \in BOOLEAN
  /\ now = StartNow
  /\ session = Null
  /\ storage \in InitStorage
  /\ startup = StartupIdle
  /\ calls = [c \in Callers |-> IdleCall]
  /\ received = NoResponse
  /\ app = AppIdle

\* --------------------------------------------------------------- actions
\* new AuthService(): session = signal(restoreSession()); ensureSessionValidity()
Construct ==
  /\ phase = "boot"
  /\ phase' = "running"
  /\ session' = RestoreSession(storage)
  /\ startup' = EnsureSessionValidity(RestoreSession(storage), now)
  /\ UNCHANGED <<apiKey, now, storage, calls, received>>

\* the refresh exchange of ensureSessionValidity succeeds
StartupRefreshed(response) ==
  /\ startup.pc = "awaitRefresh"
  /\ PersistSession(RefreshSession(startup.current, response, now))
  /\ startup' = [startup EXCEPT !.pc = "done", !.body = NoBody,
                                !.outcome = "refreshed"]
  /\ received' = response
  /\ UNCHANGED <<phase, apiKey, now, calls>>

\* mutant: logout removes the stored record but keeps the signal
LogoutKeepsSignal ==
  /\ phase = "running"
  /\ storage' = NoItem
  /\ UNCHANGED <<phase, apiKey, now, session, startup, calls, received>>

\* logout(): session.set(null); persistSession(null)
Logout ==
  /\ phase = "running"
  /\ session' = Null
  /\ PersistSession(Null)
  /\ UNCHANGED <<phase, apiKey, now, startup, calls, received>>

\* mutant: the failure is swallowed and the rehydrated session stays
StartupRefreshFailedKeepsSession ==
  /\ startup.pc \in {"awaitRefresh", "rejected"}
  /\ startup' = [startup EXCEPT !.pc = "done", !.body = NoBody,
                                !.outcome = "loggedOut"]
  /\ UNCHANGED <<phase, apiKey, now, session, storage, calls, received>>

\* the refresh of ensureSessionValidity fails (or assertApiKey threw): logout()
StartupRefreshFailed ==
  /\ startup.pc \in {"awaitRefresh", "rejected"}
  /\ session' = Null
  /\ PersistSession(Null)
  /\ startup' = [startup EXCEPT !.pc = "done", !.body = NoBody,
                                !.outcome = "loggedOut"]
  /\ UNCHANGED <<phase, apiKey, now, calls, received>>

\* ConsultantService.list / getById / create / update / remove subscribed by
\* caller c: each of the five is withAuth(requestFactory)
Request(c) ==
  /\ phase = "running"
  /\ calls[c].pc = "idle"
  /\ calls' = [calls EXCEPT ![c] = WithAuth(session, now)]
  /\ UNCHANGED <<phase, apiKey, now, session, storage, startup, received>>

\* the session refreshSession builds from c's `current` and the response
Refresh(c, response) ==
  RefreshSession([email |-> calls[c].email, refreshToken |-> calls[c].body.refresh_token],
                 response, now)

\* the refresh exchange of c's getValidToken succeeds: the session is
\* replaced and persisted, the token returned, the request sent
Refreshed(c, response) ==
  /\ calls[c].pc = "awaitRefresh"
  /\ PersistSession(Refresh(c, response))
  /\ calls' = [calls EXCEPT ![c] =
       [IdleCall EXCEPT !.pc = "sent",
                        !.exchanges = calls[c].exchanges,
                        !.token = Refresh(c, response).idToken,
                        !.authorization = BuildHeaders(Refresh(c, response).idToken)]]
  /\ received' = response
  /\ UNCHANGED <<phase, apiKey, now, startup>>

\* mutant: a failed refresh logs out, as the startup path does
RefreshFailedForcesLogout(c) ==
  /\ calls[c].pc = "awaitRefresh"
  /\ calls' = [calls EXCEPT ![c] =
       [IdleCall EXCEPT !.outcome = "RefreshError"]]
  /\ PersistSession(Null)
  /\ UNCHANGED <<phase, apiKey, now, startup, received>>

\* the refresh exchange of c's getValidToken fails: the error reaches the caller
RefreshFailed(c) ==
  /\ calls[c].pc = "awaitRefresh"
  /\ calls' = [calls EXCEPT ![c] =
       [IdleCall EXCEPT !.outcome = "RefreshError"]]
  /\ UNCHANGED <<phase, apiKey, now, session, storage, startup, received>>

\* the backend answers the request c sent
Responded(c) ==
  /\ calls[c].pc = "sent"
  /\ calls' = [calls EXCEPT ![c] = IdleCall]
  /\ UNCHANGED <<phase, apiKey, now, session, storage, startup, received>>

\* AuthService.login(email, password) called by caller c
Login(c, email) ==
  /\ phase = "running"
  /\ calls[c].pc = "idle"
  /\ calls' = [calls EXCEPT ![c] =
       IF ~AssertApiKey
       THEN [IdleCall EXCEPT !.outcome = "ApiKeyError"]
       ELSE [IdleCall EXCEPT !.pc = "awaitLogin", !.email = email,
                             !.body = SignInBody(email), !.exchanges = 1]]
  /\ UNCHANGED <<phase, apiKey, now, session, storage, startup, received>>

\* mutant: the new session is built but never installed
LoggedInNotPersisted(c, response) ==
  /\ calls[c].pc = "awaitLogin"
  /\ calls' = [calls EXCEPT ![c] =
       [IdleCall EXCEPT !.outcome = "loggedIn"]]
  /\ received' = response
  /\ UNCHANGED <<phase, apiKey, now, session, storage, startup>>

\* the sign-in exchange succeeds: persistSession(toSession(response))
LoggedIn(c, response) ==
  /\ calls[c].pc = "awaitLogin"
  /\ PersistSession(ToSession(response, now))
  /\ calls' = [calls EXCEPT ![c] =
       [IdleCall EXCEPT !.outcome = "loggedIn"]]
  /\ received' = response
  /\ UNCHANGED <<phase, apiKey, now, startup>>

\* mutant: a failed sign-in drops the session that was there
LoginFailedClearsSession(c) ==
  /\ calls[c].pc = "awaitLogin"
  /\ calls' = [calls EXCEPT ![c] =
       [IdleCall EXCEPT !.outcome = "AuthenticationError"]]
  /\ PersistSession(Null)
  /\ UNCHANGED <<phase, apiKey, now, startup, received>>

\* the sign-in exchange fails: the error reaches the caller of login
LoginFailed(c) ==
  /\ calls[c].pc = "awaitLogin"
  /\ calls' = [calls EXCEPT ![c] =
       [IdleCall EXCEPT !.outcome = "AuthenticationError"]]
  /\ UNCHANGED <<phase, apiKey, now, session, storage, startup, received>>

\* time passes
Tick ==
  /\ now < MaxNow
  /\ now' = now + TickMs
  /\ UNCHANGED <<phase, apiKey, session, storage, startup, calls, received>>

Next ==
  \/ Construct /\ UNCHANGED app
  \/ \E response \in RefreshResponses : StartupRefreshed(response) /\ UNCHANGED app
  \/ StartupRefreshFailed /\ UNCHANGED app
  \/ Logout /\ UNCHANGED app
  \/ \E c \in Callers : Request(c) /\ UNCHANGED app
  \/ \E c \in Callers, response \in RefreshResponses : Refreshed(c, response) /\ UNCHANGED app
  \/ \E c \in Callers : RefreshFailed(c) /\ UNCHANGED app
  \/ \E c \in Callers : Responded(c) /\ UNCHANGED app
  \/ \E c \in Callers, email \in Identifiers : Login(c, email) /\ UNCHANGED app
  \/ \E c \in Callers, response \in SignInResponses : LoggedIn(c, response) /\ UNCHANGED app
  \/ \E c \in Callers : LoginFailed(c) /\ UNCHANGED app
  \/ Tick /\ UNCHANGED app

Spec == Init /\ [][Next]_vars

TypeOK ==
  /\ phase \in {"boot", "running"}
  /\ now \in StartNow..MaxNow
  /\ startup.pc \in {"boot", "awaitRefresh", "rejected", "done"}
  /\ \A c \in Callers : calls[c].pc \in {"idle", "awaitRefresh", "awaitLogin", "sent"}

\* ------------------------------------------------------------ properties
\* the stored record, read member by member
StoredStr(k) == IF storage.item /\ HasMember(storage.text, k)
                THEN Member(storage.text, k).str ELSE Undefined
StoredNum(k) == IF storage.item /\ HasMember(storage.text, k)
                THEN Member(storage.text, k).num ELSE NaN

\* the claims' words for the age of a session at time t
WithinMarginOrPassed(s, t) == IsNum(s.expiresAt) /\ s.expiresAt <= t + Margin
BeyondMargin(s, t) == IsNum(s.expiresAt) /\ s.expiresAt > t + Margin

\* caller c's refresh exchange completes successfully in this step
RefreshSucceeds(c) == calls[c].pc = "awaitRefresh" /\ calls'[c].pc = "sent"
\* caller c's refresh exchange fails in this step
RefreshFails(c) == calls[c].pc = "awaitRefresh" /\ calls'[c].pc = "idle"

\* C1: a getValidToken call that finds the session within 60,000 ms of its
\* expiry (or past it) starts one refresh exchange with the session's refresh
\* token and no second one; when the exchange succeeds the call returns the
\* response's id_token and the persisted record holds the response's
\* id_token and refresh_token and expiresAt = now + expires_in * 1000.
C1_StaleTokenIsRefreshedOnce ==
  [][\A c \in Callers :
       /\ (Request(c) /\ session # Null /\ WithinMarginOrPassed(session, now) /\ apiKey)
            => /\ calls'[c].pc = "awaitRefresh"
               /\ calls'[c].exchanges = 1
               /\ calls'[c].body.refresh_token = session.refreshToken
       /\ RefreshSucceeds(c)
            => /\ calls'[c].exchanges = 1
               /\ calls'[c].token = received'.id_token
               /\ session'.idToken = received'.id_token
               /\ session'.refreshToken = received'.refresh_token
               /\ session'.expiresAt = now + Number(received'.expires_in) * 1000
               /\ StoredStr("idToken")' = received'.id_token
               /\ StoredStr("refreshToken")' = received'.refresh_token
               /\ StoredNum("expiresAt")' = now + Number(received'.expires_in) * 1000
    ]_vars

\* a request went out after a refresh, and the stored record is the refreshed one
C1_Witness ==
  \E c \in Callers :
    /\ calls[c].pc = "sent" /\ calls[c].exchanges = 1
    /\ session # Null /\ calls[c].token = session.idToken
    /\ StoredStr("refreshToken") = received.refresh_token

\* C2: a getValidToken call that finds expiresAt more than 60,000 ms ahead
\* returns the session's idToken, starts no exchange and leaves the
\* in-memory session and the stored record as they were.
C2_FreshTokenIsReturnedFromCache ==
  [][\A c \in Callers :
       (Request(c) /\ session # Null /\ BeyondMargin(session, now))
         => /\ calls'[c].pc = "sent"
            /\ calls'[c].token = session.idToken
            /\ calls'[c].exchanges = 0
            /\ calls'[c].body = NoBody
            /\ session' = session /\ storage' = storage /\ received' = received
    ]_vars

\* a request went out with the cached token of a session beyond the margin
C2_Witness ==
  \E c \in Callers :
    /\ calls[c].pc = "sent" /\ calls[c].exchanges = 0
    /\ session # Null /\ BeyondMargin(session, now)
    /\ calls[c].token = session.idToken /\ calls[c].token # Undefined

\* C3: logout leaves isAuthenticated false, and a getValidToken call made
\* while there is no session fails with the not-authenticated error, sends
\* nothing and starts no exchange.
C3_LogoutThenNotAuthenticated ==
  [][/\ Logout => (~IsAuthenticated' /\ storage' = NoItem)
     /\ \A c \in Callers :
          (Request(c) /\ session = Null)
            => /\ calls'[c].pc = "idle"
               /\ calls'[c].outcome = "NotAuthenticated"
               /\ calls'[c].exchanges = 0 /\ calls'[c].body = NoBody
               /\ session' = Null /\ storage' = storage
    ]_vars

\* startup kept a session, it is gone now, and a call failed for want of it
C3_Witness ==
  /\ startup.outcome = "kept" /\ received = NoResponse
  /\ ~IsAuthenticated /\ storage = NoItem
  /\ \E c \in Callers : calls[c].outcome = "NotAuthenticated"

\* caller c's sign-in exchange completes successfully in this step
LoginSucceeds(c) == calls[c].pc = "awaitLogin" /\ calls'[c].outcome = "loggedIn"
\* caller c's sign-in exchange fails in this step
LoginFails(c) ==
  calls[c].pc = "awaitLogin" /\ calls'[c].pc = "idle" /\ calls'[c].outcome # "loggedIn"

\* C4 as stated: after a successful login isAuthenticated is true and
\* userEmail equals the identifier that was passed to login.
C4_UserEmailIsSubmittedIdentifier ==
  [][\A c \in Callers :
       LoginSucceeds(c) => (IsAuthenticated' /\ UserEmail' = calls[c].email)
    ]_vars

\* C4 amended: after a successful login, from any prior state, isAuthenticated
\* is true and userEmail equals the email field of the sign-in response; the
\* request carried the identifier with surrounding whitespace removed.
C4_UserEmailIsResponseEmail ==
  [][\A c \in Callers :
       /\ LoginSucceeds(c)
            => /\ IsAuthenticated'
               /\ UserEmail' = received'.email
               /\ session'.idToken = received'.idToken
       /\ \A e \in Identifiers :
            (Login(c, e) /\ apiKey)
              => /\ calls'[c].pc = "awaitLogin"
                 /\ calls'[c].body.email \in ServerEmails
                 /\ (e \in ServerEmails => calls'[c].body.email = e)
    ]_vars

\* a login has just completed and the session carries the response's email
C4_Witness ==
  /\ \E c \in Callers : calls[c].outcome = "loggedIn"
  /\ IsAuthenticated /\ received # NoResponse
  /\ UserEmail = <<"b">>

\* the rehydrated session's expiresAt is in the past at time t
InThePast(s, t) == IsNum(s.expiresAt) /\ s.expiresAt < t
StartupPending == startup.pc \in {"awaitRefresh", "rejected"}

\* startup: an elapsed record starts the eager refresh; its failure logs out
C5_EagerRefreshAndForcedLogout ==
  /\ (Construct /\ RestoreSession(storage) # Null /\ InThePast(RestoreSession(storage), now))
       => /\ StartupPending'
          /\ startup'.current = RestoreSession(storage)
          /\ apiKey => (startup'.pc = "awaitRefresh"
                        /\ startup'.body.refresh_token = RestoreSession(storage).refreshToken)
  /\ (StartupPending /\ startup'.outcome = "loggedOut")
       => (~IsAuthenticated' /\ session' = Null /\ storage' = NoItem)

\* C5 as stated: a persisted session with expiresAt in the past starts an
\* eager refresh at startup; if it fails the state is fully unauthenticated;
\* and the stale session never surfaces as authenticated.
C5_StaleSessionNeverSurfaces ==
  [][/\ C5_EagerRefreshAndForcedLogout
     /\ ~(StartupPending' /\ IsAuthenticated' /\ session' = startup'.current)
    ]_vars

\* C5 amended: a persisted session with expiresAt in the past starts an eager
\* refresh at startup; if that refresh fails the resulting state is fully
\* unauthenticated (no session in memory, no stored record) and the stale
\* session is never the authenticated session again.  (While the refresh is
\* pending the rehydrated session does count as authenticated.)
C5_StaleSessionGoneAfterFailure ==
  [][/\ C5_EagerRefreshAndForcedLogout
     /\ startup'.outcome = "loggedOut" => session' # startup'.current
    ]_vars

\* the eager refresh of an elapsed record was sent, failed, and logged out
C5_Witness ==
  /\ startup.outcome = "loggedOut" /\ apiKey
  /\ startup.current # Null /\ InThePast(startup.current, StartNow)
  /\ ~IsAuthenticated /\ storage = NoItem

\* C6 as stated: every request goes out after getValidToken returned, with
\* Authorization: Bearer <the token returned>, and none goes out without a
\* valid session.
C6_RequestsCarryBearerToken ==
  [][\A c \in Callers :
       (calls[c].pc # "sent" /\ calls'[c].pc = "sent")
         => /\ IsAuthenticated'
            /\ calls'[c].token = session'.idToken
            /\ calls'[c].token # Undefined
            /\ calls'[c].authorization = Bearer(calls'[c].token)
    ]_vars

\* C7: when the refresh exchange of a getValidToken call fails, the caller
\* gets the error, the call ends without another exchange, and neither the
\* call nor the failure changed the in-memory session or the stored record.
C7_FailedRefreshLeavesSession ==
  [][\A c \in Callers :
       /\ RefreshFails(c)
            => /\ calls'[c].outcome = "RefreshError"
               /\ calls'[c].exchanges = 0 /\ calls'[c].body = NoBody
               /\ session' = session /\ storage' = storage
       /\ Request(c) => (session' = session /\ storage' = storage)
       /\ (Request(c) /\ session # Null /\ WithinMarginOrPassed(session, now) /\ ~apiKey)
            => (calls'[c].pc = "idle" /\ calls'[c].outcome = "ApiKeyError")
    ]_vars

\* a refresh failed for a caller and the session it tried to refresh is still there
C7_Witness ==
  /\ \E c \in Callers : calls[c].outcome = "RefreshError"
  /\ IsAuthenticated /\ storage # NoItem
  /\ WithinMarginOrPassed(session, now)

\* C8: when the sign-in exchange fails, login fails to its caller, starts no
\* further exchange, and the session and the stored record are unchanged.
C8_FailedLoginLeavesSession ==
  [][\A c \in Callers :
       /\ LoginFails(c)
            => /\ calls'[c].pc = "idle"
               /\ calls'[c].outcome = "AuthenticationError"
               /\ calls'[c].exchanges = 0 /\ calls'[c].body = NoBody
               /\ session' = session /\ storage' = storage
       /\ \A e \in Identifiers :
            Login(c, e)
              => /\ session' = session /\ storage' = storage
                 /\ calls'[c].exchanges <= 1
                 /\ ~apiKey => (calls'[c].pc = "idle"
                                /\ calls'[c].outcome = "ApiKeyError")
    ]_vars

\* a login failed while a session existed, and the session is still there
C8_Witness ==
  /\ \E c \in Callers : calls[c].outcome = "AuthenticationError"
  /\ IsAuthenticated /\ storage # NoItem

\* refresh exchanges in flight
RefreshesInFlight ==
  Cardinality({c \in Callers : calls[c].pc = "awaitRefresh"})
    + (IF startup.pc = "awaitRefresh" THEN 1 ELSE 0)

\* C9 as stated: at most one refresh exchange is in flight at any time.
C9_SingleFlightRefresh == RefreshesInFlight <= 1

\* C10 as stated: a session comes into existence only by a successful login
\* or by rehydration at startup, and a stored record is written anew only by
\* a successful login; a refresh completing after logout brings neither back.
C10_SessionOnlyFromLoginOrStartup ==
  [][/\ (~IsAuthenticated /\ IsAuthenticated')
          => (Construct \/ \E c \in Callers : LoginSucceeds(c))
     /\ (phase = "running" /\ storage = NoItem /\ storage' # NoItem)
          => \E c \in Callers : LoginSucceeds(c)
    ]_vars

\* the eager refresh of ensureSessionValidity completes successfully in this step
StartupRefreshSucceeds == startup.pc = "awaitRefresh" /\ startup'.outcome = "refreshed"
\* a refresh result is installed in this step
RefreshInstalled == StartupRefreshSucceeds \/ \E c \in Callers : RefreshSucceeds(c)
\* a field the token service filled in
IsRefreshResponse(r) == "refresh_token" \in DOMAIN r

\* C11 as stated: when a refresh result is installed over a session, the
\* identifier after the step equals the identifier before it, whatever
\* logins completed in between.
C11_RefreshPreservesIdentifier ==
  [][(RefreshInstalled /\ IsAuthenticated) => UserEmail' = UserEmail]_vars

\* C12: after a successful refresh the refreshToken in memory and in the
\* stored record is the response's refresh_token, and it stays so for as long
\* as that response is the last one delivered; every refresh exchange that is
\* started sends the refreshToken the session holds at that moment.
C12_RotatedRefreshTokenAdopted ==
  [][/\ RefreshInstalled
          => /\ session'.refreshToken = received'.refresh_token
             /\ StoredStr("refreshToken")' = received'.refresh_token
     /\ (IsAuthenticated' /\ IsRefreshResponse(received'))
          => /\ session'.refreshToken = received'.refresh_token
             /\ StoredStr("refreshToken")' = received'.refresh_token
     /\ \A c \in Callers :
          (calls[c].pc = "idle" /\ calls'[c].pc = "awaitRefresh")
            => /\ calls'[c].body.refresh_token = session.refreshToken
               /\ IsRefreshResponse(received)
                    => calls'[c].body.refresh_token = received.refresh_token
    ]_vars

\* a refresh rotated R1 to R2 and the next refresh exchange is sending R2
C12_Witness ==
  /\ IsRefreshResponse(received) /\ received.refresh_token = "R2"
  /\ \E c \in Callers : calls[c].pc = "awaitRefresh" /\ calls[c].body.refresh_token = "R2"
  /\ startup.outcome = "refreshed"

\* a step that completes login, logout, a refresh or the forced logout
MutatingStep ==
  \/ Logout
  \/ RefreshInstalled
  \/ StartupPending /\ startup'.outcome = "loggedOut"
  \/ \E c \in Callers : LoginSucceeds(c)

\* C13: after every mutating operation (login, logout, refresh, forced
\* logout) storage holds a record that reads back equal to the in-memory
\* session, or no record when there is no session; once running, a session
\* value never comes from storage, only from a delivered response.
C13_StorageMirrorsSession ==
  [][/\ MutatingStep
          => /\ IsAuthenticated' => (storage'.item /\ RestoreSession(storage') = session')
             /\ ~IsAuthenticated' => storage' = NoItem
     /\ (phase = "running" /\ session' # session /\ IsAuthenticated')
          => /\ received' # NoResponse
             /\ session'.refreshToken =
                  (IF IsRefreshResponse(received') THEN received'.refresh_token
                   ELSE received'.refreshToken)
    ]_vars

\* a stored record was there, logout removed it
C13_Witness ==
  /\ startup.outcome = "kept" /\ received = NoResponse
  /\ ~IsAuthenticated /\ storage = NoItem

\* every field of s is populated
Complete(s) ==
  /\ s.email # UndefinedEmail /\ s.idToken # Undefined
  /\ s.refreshToken # Undefined /\ IsNum(s.expiresAt)

\* C14 as stated: a session that is present has all four fields populated,
\* also when it was rehydrated from whatever record storage held.
C14_SessionIsComplete == IsAuthenticated => Complete(session)

\* ------------------------------------------------- save and load in isolation
\* the sessions handed to persistSession
RoundTripSessions ==
  { Rec(e, g.id, g.refresh, StartNow + k * TickMs) :
      e \in Identifiers, g \in Grants, k \in 0..(MaxTicks + 2) }

InitRoundTrip ==
  /\ phase = "save"
  /\ apiKey = TRUE
  /\ now = StartNow
  /\ session \in RoundTripSessions \cup {Null}
  /\ storage \in InitStorage
  /\ startup = StartupIdle
  /\ calls = [c \in Callers |-> IdleCall]
  /\ received = NoResponse
  /\ app = AppIdle

\* persistSession(s) on whatever storage held before
PersistStep ==
  /\ phase = "save"
  /\ phase' = "load"
  /\ PersistSession(session)
  /\ UNCHANGED <<apiKey, now, startup, calls, received, app>>

\* restoreSession() on what persistSession left
RestoreStep ==
  /\ phase = "load"
  /\ phase' = "loaded"
  /\ session' = RestoreSession(storage)
  /\ UNCHANGED <<apiKey, now, storage, startup, calls, received, app>>

NextRoundTrip == PersistStep \/ RestoreStep

SpecRoundTrip == InitRoundTrip /\ [][NextRoundTrip]_vars

\* C15: restoreSession after persistSession(s) yields a session equal to s
\* in all four fields, and after persistSession(null) it yields null,
\* whatever storage held before.
C15_SaveThenLoadIsIdentity ==
  [][RestoreStep
       => /\ session' = session
          /\ IsAuthenticated
               => /\ session'.email = session.email
                  /\ session'.idToken = session.idToken
                  /\ session'.refreshToken = session.refreshToken
                  /\ session'.expiresAt = session.expiresAt
          /\ ~IsAuthenticated => (storage = NoItem /\ session' = Null)
    ]_vars

\* a complete session with a padded identifier came back from storage
C15_Witness ==
  /\ phase = "loaded" /\ IsAuthenticated /\ Complete(session)
  /\ session.email = <<Space, "a", Space>>

\* expiresAt lies ahead of t, but by no more than the safety margin
InsideMargin(s, t) ==
  IsNum(s.expiresAt) /\ s.expiresAt > t /\ s.expiresAt - Margin <= t

\* C16: construction keeps a rehydrated session whose expiresAt has not
\* elapsed exactly as stored and starts no exchange, also inside the 60,000 ms
\* margin; with nothing rehydrated it starts no exchange either; the kept
\* within-margin session is refreshed by the first getValidToken call.
C16_StartupKeepsUnelapsedSession ==
  [][/\ (Construct /\ RestoreSession(storage) # Null
           /\ IsNum(RestoreSession(storage).expiresAt)
           /\ RestoreSession(storage).expiresAt > now)
          => /\ session' = RestoreSession(storage)
             /\ storage' = storage
             /\ startup'.pc = "done" /\ startup'.outcome = "kept"
             /\ startup'.body = NoBody
             /\ RefreshesInFlight' = 0
     /\ (Construct /\ RestoreSession(storage) = Null)
          => /\ session' = Null
             /\ startup'.pc = "done" /\ startup'.body = NoBody
             /\ RefreshesInFlight' = 0
     /\ \A c \in Callers :
          (Request(c) /\ IsAuthenticated /\ startup.outcome = "kept"
             /\ received = NoResponse /\ InsideMargin(session, now) /\ apiKey)
            => /\ calls'[c].pc = "awaitRefresh"
               /\ calls'[c].body = RefreshBody(startup.current)
    ]_vars

\* a session kept at startup inside the margin, being refreshed by a request
C16_Witness ==
  /\ startup.outcome = "kept" /\ IsAuthenticated
  /\ InsideMargin(startup.current, StartNow)
  /\ \E c \in Callers : calls[c].pc = "awaitRefresh" /\ calls[c].exchanges = 1

\* the lifetime in milliseconds a response's digit string declares
DeclaredLifetimeMs(digits) ==
  CASE digits = <<3, 0>> -> 30000
    [] digits = <<1, 2, 0>> -> 120000

\* the lifetime string of the response delivered last
ReceivedLifetime(r) == IF IsRefreshResponse(r) THEN r.expires_in ELSE r.expiresIn

\* C17: every session created by login or by refresh has expiresAt equal to
\* the clock value when the response is processed plus the declared lifetime
\* in seconds times 1000, in memory and in the stored record, and that is
\* never earlier than the moment of creation.
C17_ExpiryIsClockPlusLifetime ==
  [][(RefreshInstalled \/ \E c \in Callers : LoginSucceeds(c))
       => /\ session'.expiresAt = now + DeclaredLifetimeMs(ReceivedLifetime(received'))
          /\ StoredNum("expiresAt")' = session'.expiresAt
          /\ session'.expiresAt >= now
    ]_vars

\* a login at a later clock value produced a session with a 120 s lifetime
C17_Witness ==
  /\ IsAuthenticated /\ ~IsRefreshResponse(received) /\ received # NoResponse
  /\ now > StartNow
  /\ session.expiresAt = now + 120000

\* C18 as stated: when the eager refresh of startup fails after a login has
\* replaced the rehydrated session, the forced logout leaves the session of
\* that login in memory and in storage.
C18_ForcedLogoutSparesNewLogin ==
  [][(StartupPending /\ startup'.outcome = "loggedOut"
        /\ IsAuthenticated /\ received # NoResponse /\ ~IsRefreshResponse(received)
        /\ session = ToSession(received, session.expiresAt - DeclaredLifetimeMs(received.expiresIn)))
       => (session' = session /\ storage' = storage)
    ]_vars

\* ----------------------------------------------------- AppComponent actions
\* stored records the component may start from
AppStoredSessions ==
  { Rec(<<"a">>, "T1", "R1", StartNow - TickMs),
    Rec(<<"a">>, "T1", "R1", StartNow + 4 * TickMs) }

\* what the token service answers in this specification
AppSignInResponses == {r \in SignInResponses : r.email = <<"a">> /\ r.idToken = "T2"}
AppRefreshResponses == {r \in RefreshResponses : r.id_token = "T2"}

InitApp ==
  /\ phase = "boot"
  /\ apiKey \in BOOLEAN
  /\ now = StartNow
  /\ session = Null
  /\ storage \in {NoItem} \cup {Item(JSONstringify(s)) : s \in AppStoredSessions}
  /\ startup = StartupIdle
  /\ calls = [c \in Loaders |-> IdleCall]
  /\ received = NoResponse
  /\ app = AppIdle

\* the component is created: inject(AuthService) constructs the service, the
\* constructor registers the effect
CreateComponent == Construct /\ UNCHANGED app

\* ngOnInit(): if (isAuthenticated()) void loadConsultants()
NgOnInit(c) ==
  /\ phase = "running"
  /\ app.stage = "init"
  /\ IF IsAuthenticated
     THEN /\ Request(c)
          /\ app' = [LoadStarted(app, calls'[c]) EXCEPT !.stage = "ready"]
     ELSE /\ app' = [app EXCEPT !.stage = "ready"]
          /\ UNCHANGED <<phase, apiKey, now, session, storage, startup, calls, received>>

\* the constructor's effect runs: loadConsultants() when authenticated,
\* consultants.set([]) when not
EffectRun(c) ==
  /\ phase = "running"
  /\ app.stage = "ready"
  /\ app.effectDue
  /\ IF IsAuthenticated
     THEN /\ Request(c)
          /\ app' = [LoadStarted(app, calls'[c]) EXCEPT !.effectDue = FALSE]
     ELSE /\ app' = [app EXCEPT !.effectDue = FALSE, !.consultants = <<>>]
          /\ UNCHANGED <<phase, apiKey, now, session, storage, startup, calls, received>>

\* AppComponent.login() up to the await of authService.login
AppLogin(c, email) ==
  /\ Settled
  /\ Login(c, email)
  /\ app' = IF AssertApiKey THEN app ELSE HandleError(app)

\* authService.login resolved: the form is reset, the success is shown and
\* loadConsultants() is awaited; the effect is due if isAuthenticated changed
AppLoggedIn(c, response) ==
  /\ Settled
  /\ calls[c].pc = "awaitLogin"
  /\ PersistSession(ToSession(response, now))
  /\ received' = response
  /\ calls' = [calls EXCEPT ![c] = WithAuth(ToSession(response, now), now)]
  /\ app' = [LoadStarted(ShowFeedback(app, "success"), calls'[c])
               EXCEPT !.effectDue = ~IsAuthenticated]
  /\ UNCHANGED <<phase, apiKey, now, startup>>

\* authService.login rejected: handleError
AppLoginFailed(c) ==
  /\ Settled
  /\ LoginFailed(c)
  /\ app' = HandleError(app)

\* AppComponent.logout()
AppLogout ==
  /\ Settled
  /\ Logout
  /\ app' = [ShowFeedback(app, "success")
               EXCEPT !.consultants = <<>>, !.effectDue = IsAuthenticated]

\* loadConsultants() called once more (after a create, update or remove)
LoadConsultants(c) ==
  /\ Settled
  /\ IsAuthenticated
  /\ Request(c)
  /\ app' = LoadStarted(app, calls'[c])

\* list() answered: the list is sorted and set, loading is cleared
ListLoaded(c, consultores) ==
  /\ Settled
  /\ Responded(c)
  /\ app' = [app EXCEPT !.consultants = SortByNome(consultores), !.loading = FALSE]

\* list() failed: handleError, loading is cleared
ListFailed(c) ==
  /\ Settled
  /\ Responded(c)
  /\ app' = [HandleError(app) EXCEPT !.loading = FALSE]

\* the refresh inside list() succeeded: the request goes out
LoadRefreshed(c, response) ==
  /\ Settled
  /\ Refreshed(c, response)
  /\ app' = [app EXCEPT !.effectDue = ~IsAuthenticated]

\* the refresh inside list() failed: handleError, loading is cleared
LoadRefreshFailed(c) ==
  /\ Settled
  /\ RefreshFailed(c)
  /\ app' = [HandleError(app) EXCEPT !.loading = FALSE]

\* the eager refresh of the service succeeded
AppStartupRefreshed(response) ==
  /\ Settled
  /\ StartupRefreshed(response)
  /\ app' = [app EXCEPT !.effectDue = ~IsAuthenticated]

\* the eager refresh of the service failed: the forced logout
AppStartupRefreshFailed ==
  /\ Settled
  /\ StartupRefreshFailed
  /\ app' = [app EXCEPT !.effectDue = IsAuthenticated]

\* showFeedback's setTimeout(() => feedback.set(null), 5000)
FeedbackTimeout ==
  /\ Settled
  /\ app.feedback # "none"
  /\ app' = [app EXCEPT !.feedback = "none"]
  /\ UNCHANGED <<phase, apiKey, now, session, storage, startup, calls, received>>

AppTick == Settled /\ Tick /\ UNCHANGED app

NextApp ==
  \/ CreateComponent
  \/ \E c \in Loaders : NgOnInit(c)
  \/ \E c \in Loaders : EffectRun(c)
  \/ \E c \in Loaders : AppLogin(c, <<"a">>)
  \/ \E c \in Loaders, response \in AppSignInResponses : AppLoggedIn(c, response)
  \/ \E c \in Loaders : AppLoginFailed(c)
  \/ AppLogout
  \/ \E c \in Loaders : LoadConsultants(c)
  \/ \E c \in Loaders, consultores \in ListResults : ListLoaded(c, consultores)
  \/ \E c \in Loaders : ListFailed(c)
  \/ \E c \in Loaders, response \in AppRefreshResponses : LoadRefreshed(c, response)
  \/ \E c \in Loaders : LoadRefreshFailed(c)
  \/ \E response \in AppRefreshResponses : AppStartupRefreshed(response)
  \/ AppStartupRefreshFailed
  \/ FeedbackTimeout
  \/ AppTick

SpecApp == InitApp /\ [][NextApp]_vars

\* a list request, or the token exchange before it, is in flight
ListInFlight == \E c \in Loaders : calls[c].pc # "idle"

\* C19 as stated: once the user is unauthenticated and no list request is in
\* flight the consultants list is empty; a load that was in flight at logout
\* does not repopulate it.
C19_NoConsultantsWhenLoggedOut ==
  (Settled /\ ~IsAuthenticated /\ ~ListInFlight) => app.consultants = <<>>

====
